---- MODULE Spec2Model ----
(***************************************************************************)
(* A state-machine model of burst_extractor.S3Zip (random-access           *)
(* extraction of one member of a remote ZIP / ZIP64 archive through HTTP   *)
(* range reads), of the chunked range fetch it is built on, and of the     *)
(* chunked range reads of benchmark.py.                                    *)
(*                                                                         *)
(* Numbers.  TLC's integers are 32 bits wide, the program's are not, and   *)
(* the program's interesting offsets lie at 2^31 and 2^32.  A byte offset  *)
(* or an object size is therefore a pair <<hi, lo>> standing for           *)
(* hi * 2^30 + lo with 0 <= lo < 2^30 (hi < 0 for a negative number);      *)
(* so are the lengths of reads, the chunk sizes and the thresholds.        *)
(* Positions inside a buffer the program holds are plain integers.         *)
(*                                                                         *)
(* Bytes.  A byte string is run-length encoded: a sequence of              *)
(* <<byte, count>> runs with count >= 1 and no two adjacent runs of the    *)
(* same byte, so that equal strings are equal values and a 9 MiB member    *)
(* is a handful of runs.                                                   *)
(***************************************************************************)
EXTENDS Integers, Sequences, FiniteSets, TLC

KB == 1024
MB == KB * KB

(* ---------------------------------------------------------------------- *)
(* Wide integers                                                           *)
(* ---------------------------------------------------------------------- *)
ZBase == 1024 * 1024 * 1024

Z(n) == <<n \div ZBase, n % ZBase>>

ZAdd(a, b) ==
    LET s == a[2] + b[2]
    IN  <<a[1] + b[1] + (s \div ZBase), s % ZBase>>

ZNeg(a) == IF a[2] = 0 THEN <<0 - a[1], 0>> ELSE <<0 - a[1] - 1, ZBase - a[2]>>

ZSub(a, b) == ZAdd(a, ZNeg(b))

ZLe(a, b) == a[1] < b[1] \/ (a[1] = b[1] /\ a[2] <= b[2])

ZLt(a, b) == a[1] < b[1] \/ (a[1] = b[1] /\ a[2] < b[2])

ZIsNeg(a) == a[1] < 0

\* The plain integer of a wide integer in -2^31 .. 2^31 - 1.
ZInt(a) == (a[1] * ZBase) + a[2]

ZMin(a, b) == IF ZLe(a, b) THEN a ELSE b

\* k * a for a small plain k >= 0.
RECURSIVE ZTimes(_, _)
ZTimes(k, a) == IF k <= 0 THEN Z(0) ELSE ZAdd(a, ZTimes(k - 1, a))

(* ---------------------------------------------------------------------- *)
(* Byte strings                                                            *)
(* ---------------------------------------------------------------------- *)
Fill(b, n) == IF n <= 0 THEN <<>> ELSE << <<b, n>> >>

BCat(s, t) ==
    IF s = <<>> THEN t
    ELSE IF t = <<>> THEN s
    ELSE IF s[Len(s)][1] = t[1][1]
         THEN SubSeq(s, 1, Len(s) - 1)
              \o << <<t[1][1], s[Len(s)][2] + t[1][2]>> >>
              \o Tail(t)
         ELSE s \o t

\* The byte string of a plain sequence of bytes (by halves: the recursion
\* stays shallow).
RECURSIVE LitRange(_, _, _)
LitRange(q, lo, hi) ==
    IF lo > hi THEN <<>>
    ELSE IF lo = hi THEN << <<q[lo], 1>> >>
    ELSE LET mid == (lo + hi) \div 2
         IN  BCat(LitRange(q, lo, mid), LitRange(q, mid + 1, hi))

Lit(q) == LitRange(q, 1, Len(q))

\* The number of bytes in runs lo..hi of s.
RECURSIVE RunsLen(_, _, _)
RunsLen(s, lo, hi) ==
    IF lo > hi THEN 0
    ELSE IF lo = hi THEN s[lo][2]
    ELSE LET mid == (lo + hi) \div 2
         IN  RunsLen(s, lo, mid) + RunsLen(s, mid + 1, hi)

BLen(s) == RunsLen(s, 1, Len(s))

\* The offset at which each of the runs lo..hi of s ends, the first of them
\* starting at offset base.
RECURSIVE RunEnds(_, _, _, _)
RunEnds(s, lo, hi, base) ==
    IF lo > hi THEN <<>>
    ELSE IF lo = hi THEN <<base + s[lo][2]>>
    ELSE LET Rest(left) == left \o RunEnds(s, ((lo + hi) \div 2) + 1, hi, left[Len(left)])
         IN  Rest(RunEnds(s, lo, (lo + hi) \div 2, base))

\* Python's s[a:b] for 0 <= a: the part of each run that lies in [a, b).
Slice(s, a, b) ==
    LET Cut(ends) ==
            LET cut(i) ==
                    LET Part(before, after) ==
                            <<s[i][1], (IF b < after THEN b ELSE after)
                                       - (IF a > before THEN a ELSE before)>>
                    IN  Part(ends[i] - s[i][2], ends[i])
                IsRun(r) == r[2] > 0
            IN  SelectSeq([i \in 1..Len(s) |-> cut(i)], IsRun)
    IN  Cut(RunEnds(s, 1, Len(s), 0))

\* The plain sequence of the bytes of a (short) byte string.
RECURSIVE PlainRange(_, _, _)
PlainRange(s, lo, hi) ==
    IF lo > hi THEN <<>>
    ELSE IF lo = hi THEN [i \in 1..s[lo][2] |-> s[lo][1]]
    ELSE LET mid == (lo + hi) \div 2
         IN  PlainRange(s, lo, mid) \o PlainRange(s, mid + 1, hi)

Plain(s) == PlainRange(s, 1, Len(s))

RECURSIVE JoinAll(_)
JoinAll(parts) == IF parts = <<>> THEN <<>> ELSE BCat(parts[1], JoinAll(Tail(parts)))

(* ---------------------------------------------------------------------- *)
(* Little-endian fields                                                    *)
(* ---------------------------------------------------------------------- *)
\* The unsigned value of 2 little-endian bytes at 0-based offset i of a plain
\* byte sequence (struct's "<H").
U16(p, i) == p[i + 1] + (p[i + 2] * 256)

\* The unsigned value of the 4 or 8 little-endian bytes of p, as a wide
\* integer (struct's "<L" and "<Q").  Bit 30 and up go to the high limb; the
\* model's archives keep 8-byte fields below 2^61.
ULE(p) ==
    LET lo == p[1] + (p[2] * 256) + (p[3] * 65536) + ((p[4] % 64) * 16777216)
        hi == (p[4] \div 64)
              + (IF Len(p) = 8
                 THEN 4 * (p[5] + (p[6] * 256) + (p[7] * 65536) + (p[8] * 16777216))
                 ELSE 0)
    IN  <<hi, lo>>

\* The n little-endian bytes (n = 2, 4 or 8) of a wide integer 0 <= z.
LE(z, n) ==
    LET top == z[1] \div 4
        b(i) == IF i = 1 THEN z[2] % 256
                ELSE IF i = 2 THEN (z[2] \div 256) % 256
                ELSE IF i = 3 THEN (z[2] \div 65536) % 256
                ELSE IF i = 4 THEN (z[2] \div 16777216) + ((z[1] % 4) * 64)
                ELSE IF i = 5 THEN top % 256
                ELSE IF i = 6 THEN (top \div 256) % 256
                ELSE IF i = 7 THEN (top \div 65536) % 256
                ELSE (top \div 16777216) % 256
    IN  [i \in 1..n |-> b(i)]

(* ---------------------------------------------------------------------- *)
(* burst_extractor.py: module-level function and S3Zip's parsers           *)
(* ---------------------------------------------------------------------- *)
\* str(n) inside the f-string: a minus sign, if any, then the digits.  A
\* header is a sequence of tokens; a run of digits is one token carrying the
\* number it spells.
FormatInt(z) ==
    IF ZIsNeg(z) THEN << <<"-">>, <<"num", ZNeg(z)>> >> ELSE << <<"num", z>> >>

\* f'bytes={start_range}-{end_range}'
RangeHeader(start, end) ==
    << <<"bytes=">> >> \o FormatInt(start) \o << <<"-">> >> \o FormatInt(end)

\* 2^53 = FloatLimit * 2^30: up to it a double holds every integer.
FloatLimit == 8388608

\* The spacing of the doubles next to an integer whose high limb is hi.
RECURSIVE Ulp(_)
Ulp(hi) == IF hi < FloatLimit THEN 1 ELSE 2 * Ulp(hi \div 2)

\* float(n), the conversion the division makes of its int operand: the
\* nearest double, a tie going to the even one.
Float(n) ==
    LET Round(u, r, down) ==
            IF 2 * r < u THEN down
            ELSE IF 2 * r > u THEN ZAdd(down, Z(u))
            ELSE IF (down[2] \div u) % 2 = 0 THEN down
            ELSE ZAdd(down, Z(u))
        Nearest(z, u) == Round(u, z[2] % u, ZSub(z, Z(z[2] % u)))
    IN  IF ZIsNeg(n) THEN ZNeg(Nearest(ZNeg(n), Ulp(ZNeg(n)[1])))
        ELSE Nearest(n, Ulp(n[1]))

\* The most ranges one call makes in the model.
MaxParts == 24

\* int(math.ceil(total_size / float(chunk_size))) for chunk_size > 0: the
\* ceiling of the quotient of the two doubles.  The quotient is itself
\* rounded to a double, which moves it across no integer as long as
\* float(total_size) <= 2^53 (a quotient that is no integer is at least
\* 1/chunk_size away from one), and the model's sizes stay there.
NumParts(total_size, chunk_size) ==
    LET Ceil(dividend, divisor) ==
            CHOOSE k \in 0..MaxParts :
                /\ ZLe(dividend, ZTimes(k, divisor))
                /\ k = 0 \/ ZLt(ZTimes(k - 1, divisor), dividend)
    IN  Ceil(Float(total_size), Float(chunk_size))

calculate_range_parameters(total_size, offset, chunk_size) ==
    LET Ranges(num_parts) ==
            LET start_range(part_index) == ZAdd(ZTimes(part_index, chunk_size), offset)
                end_range(part_index) ==
                    IF part_index = num_parts - 1
                    THEN ZSub(ZAdd(total_size, offset), Z(1))
                    ELSE ZSub(ZAdd(start_range(part_index), chunk_size), Z(1))
            IN  [k \in 1..num_parts |-> RangeHeader(start_range(k - 1), end_range(k - 1))]
    IN  Ranges(NumParts(total_size, chunk_size))

\* A Python value or the exception raised instead: exc = "" for a value.
Val(v) == [exc |-> "", val |-> v]
Exc(e) == [exc |-> e, val |-> <<>>]

\* parse_short with the two bytes taken in the other order.
parse_short_big_endian(in_bytes) ==
    IF BLen(in_bytes) < 2 THEN Exc("TypeError")
    ELSE Val(U16(Plain(Slice(in_bytes, 1, 2)) \o Plain(Slice(in_bytes, 0, 1)), 0))

\* ord(in_bytes[0:1]) + (ord(in_bytes[1:2]) << 8); ord() of an empty slice
\* raises TypeError.
parse_short(in_bytes) ==
    IF BLen(in_bytes) < 2 THEN Exc("TypeError")
    ELSE Val(U16(Plain(Slice(in_bytes, 0, 2)), 0))

\* struct.unpack("<i" | "<q", b): the SIGNED value; struct.error unless b is
\* exactly 4 (format i) or 8 (format q) bytes long.
parse_little_endian_to_int(little_endian_bytes) ==
    LET n == BLen(little_endian_bytes)
        p == Plain(little_endian_bytes)
        format_character == IF n = 4 THEN "i" ELSE "q"
        u == ULE(p)
    IN  IF format_character = "i"
        THEN Val(IF p[4] >= 128 THEN ZSub(u, <<4, 0>>) ELSE u)
        ELSE IF n # 8 THEN Exc("struct.error")
        ELSE IF p[8] >= 32 THEN Exc("OutOfModelRange")
        ELSE Val(u)

\* (cd_start, cd_size) of the EOCD record, or the exception.
get_central_directory_metadata_from_eocd(eocd) ==
    LET cd_size  == parse_little_endian_to_int(Slice(eocd, 12, 16))
        cd_start == parse_little_endian_to_int(Slice(eocd, 16, 20))
    IN  IF cd_size.exc # "" THEN cd_size
        ELSE IF cd_start.exc # "" THEN cd_start
        ELSE Val([cd_start |-> cd_start.val, cd_size |-> cd_size.val])

get_central_directory_metadata_from_eocd64(eocd64) ==
    LET cd_size  == parse_little_endian_to_int(Slice(eocd64, 40, 48))
        cd_start == parse_little_endian_to_int(Slice(eocd64, 48, 56))
    IN  IF cd_size.exc # "" THEN cd_size
        ELSE IF cd_start.exc # "" THEN cd_start
        ELSE Val([cd_start |-> cd_start.val, cd_size |-> cd_size.val])

(* ---------------------------------------------------------------------- *)
(* The remote object: a ZIP archive as a writer lays it out                *)
(*   [pad zero bytes] local header+name+extra+payload ... central          *)
(*   directory [ZIP64 EOCD record, ZIP64 locator] EOCD record              *)
(* A member is [name, method, lextra, data]: its name bytes, compression   *)
(* method, the extra field of its local header and its payload as stored.  *)
(* ---------------------------------------------------------------------- *)
Zeros(n) == [i \in 1..n |-> 0]

\* 2^31 - 1: above it a ZIP64-writing tool moves an offset to the extra field.
ZIP64_LIMIT == <<1, 1073741823>>

U32MAX == <<3, 1073741823>>

LocalHeader(m) ==
    Lit(<<80, 75, 3, 4, 20, 0, 0, 0>> \o LE(Z(m.method), 2) \o Zeros(8)
        \o LE(Z(BLen(m.data)), 4) \o LE(Z(BLen(m.data)), 4)
        \o LE(Z(Len(m.name)), 2) \o LE(Z(Len(m.lextra)), 2)
        \o m.name \o m.lextra)

LocalLen(m) == 30 + Len(m.name) + Len(m.lextra) + BLen(m.data)

RECURSIVE LocalsLen(_)
LocalsLen(members) ==
    IF members = <<>> THEN 0 ELSE LocalLen(members[1]) + LocalsLen(Tail(members))

\* The absolute offset of member k's local header.
MemberOffset(pad, members, k) == ZAdd(pad, Z(LocalsLen(SubSeq(members, 1, k - 1))))

\* The absolute offset of member k's payload.
MemberDataOffset(pad, members, k) ==
    ZAdd(MemberOffset(pad, members, k),
         Z(30 + Len(members[k].name) + Len(members[k].lextra)))

RECURSIVE Locals(_)
Locals(members) ==
    IF members = <<>> THEN <<>>
    ELSE BCat(BCat(LocalHeader(members[1]), members[1].data), Locals(Tail(members)))

CentralEntry(m, off, zip64) ==
    LET wide  == zip64 /\ ZLt(ZIP64_LIMIT, off)
        extra == IF wide THEN <<1, 0, 8, 0>> \o LE(off, 8) ELSE <<>>
    IN  Lit(<<80, 75, 1, 2, 20, 0, 20, 0, 0, 0>> \o LE(Z(m.method), 2) \o Zeros(8)
            \o LE(Z(BLen(m.data)), 4) \o LE(Z(BLen(m.data)), 4)
            \o LE(Z(Len(m.name)), 2) \o LE(Z(Len(extra)), 2) \o Zeros(10)
            \o LE(IF wide THEN U32MAX ELSE off, 4)
            \o m.name \o extra)

RECURSIVE Central(_, _, _, _)
Central(pad, members, k, zip64) ==
    IF k > Len(members) THEN <<>>
    ELSE BCat(CentralEntry(members[k], MemberOffset(pad, members, k), zip64),
              Central(pad, members, k + 1, zip64))

Eocd(count, cd_size, cd_start) ==
    Lit(<<80, 75, 5, 6, 0, 0, 0, 0>> \o LE(Z(count), 2) \o LE(Z(count), 2)
        \o LE(Z(cd_size), 4) \o LE(ZMin(cd_start, U32MAX), 4) \o <<0, 0>>)

Eocd64(count, cd_size, cd_start) ==
    Lit(<<80, 75, 6, 6>> \o LE(Z(44), 8) \o <<45, 0, 45, 0>> \o Zeros(8)
        \o LE(Z(count), 8) \o LE(Z(count), 8)
        \o LE(Z(cd_size), 8) \o LE(cd_start, 8))

Eocd64Locator(eocd64_start) ==
    Lit(<<80, 75, 6, 7, 0, 0, 0, 0>> \o LE(eocd64_start, 8) \o <<1, 0, 0, 0>>)

BuildTail(pad, members, zip64) ==
    LET cd_start == MemberOffset(pad, members, Len(members) + 1)
        cd       == Central(pad, members, 1, zip64)
        z64      == IF zip64
                    THEN BCat(Eocd64(Len(members), BLen(cd), cd_start),
                              Eocd64Locator(ZAdd(cd_start, Z(BLen(cd)))))
                    ELSE <<>>
    IN  JoinAll(<<Locals(members), cd, z64, Eocd(Len(members), BLen(cd), cd_start)>>)

Archive(pad, members, zip64) ==
    [pad |-> pad, tail |-> BuildTail(pad, members, zip64)]

\* The archive of exactly `size` bytes (size >= 3 GiB) holding the members.
ArchiveOfSize(size, members, zip64) ==
    Archive(ZSub(size, Z(BLen(BuildTail(<<3, 0>>, members, zip64)))), members, zip64)

ObjectSize(o) == ZAdd(o.pad, Z(BLen(o.tail)))

\* A raw-deflate stream of one final stored block holding the bytes d.
DeflateStored(d) ==
    BCat(Lit(<<1>> \o LE(Z(BLen(d)), 2) \o LE(Z(65535 - BLen(d)), 2)), d)

(* ---------------------------------------------------------------------- *)
(* zipfile.ZipFile(io.BytesIO(buf)): the directory the library reads from  *)
(* the buffer get_zip_dir hands it (CPython's _EndRecData, _EndRecData64,  *)
(* _RealGetContents and ZipInfo._decodeExtra).  The archive-comment search *)
(* of _EndRecData is not modelled: every buffer that reaches the library   *)
(* here ends with the 22 bytes that were read as the EOCD record.          *)
(* ---------------------------------------------------------------------- *)
STRING_END_ARCHIVE == <<80, 75, 5, 6>>
STRING_END_ARCHIVE64 == <<80, 75, 6, 6>>
STRING_END_ARCHIVE64_LOCATOR == <<80, 75, 6, 7>>
STRING_CENTRAL_DIR == <<80, 75, 1, 2>>

\* ZipInfo._decodeExtra: the header offset after the extra field's ZIP64
\* block (type 1) has been applied, or BadZipFile.  usize and csize are the
\* 32-bit sizes of the entry: a ZIP64 block holds the 8-byte file size,
\* compressed size and header offset, each only if its 32-bit field is all
\* ones.
RECURSIVE DecodeExtra(_, _, _, _)
DecodeExtra(extra, usize, csize, header_offset) ==
    IF Len(extra) < 4 THEN Val([header_offset |-> header_offset, compress_size |-> csize])
    ELSE LET tp == U16(extra, 0)
             ln == U16(extra, 2)
             data0 == SubSeq(extra, 5, ln + 4)
             data1 == IF usize = U32MAX THEN SubSeq(data0, 9, Len(data0)) ELSE data0
             data2 == IF csize = U32MAX THEN SubSeq(data1, 9, Len(data1)) ELSE data1
             short == \/ (usize = U32MAX /\ Len(data0) < 8)
                      \/ (csize = U32MAX /\ Len(data1) < 8)
                      \/ (header_offset = U32MAX /\ Len(data2) < 8)
             csize1 == IF csize = U32MAX THEN ULE(SubSeq(data1, 1, 8)) ELSE csize
             off1 == IF header_offset = U32MAX THEN ULE(SubSeq(data2, 1, 8))
                     ELSE header_offset
         IN  IF ln + 4 > Len(extra) THEN Exc("BadZipFile")
             ELSE IF tp = 1 /\ short THEN Exc("BadZipFile")
             ELSE IF tp = 1
                  THEN DecodeExtra(SubSeq(extra, ln + 5, Len(extra)), usize, csize1, off1)
                  ELSE DecodeExtra(SubSeq(extra, ln + 5, Len(extra)), usize, csize,
                                   header_offset)

\* The loop of _RealGetContents over the size_cd bytes `data` of the central
\* directory, from byte `total` on: the list of ZipInfo, or the exception.
RECURSIVE ReadCentralDir(_, _, _, _)
ReadCentralDir(data, total, size_cd, concat) ==
    LET Entry(centdir, filename, x, rest) ==
            IF Len(centdir) # 46 THEN Exc("BadZipFile")
            ELSE IF SubSeq(centdir, 1, 4) # STRING_CENTRAL_DIR THEN Exc("BadZipFile")
            ELSE IF U16(centdir, 6) > 63 THEN Exc("NotImplementedError")
            ELSE IF x.exc # "" THEN x
            ELSE IF rest.exc # "" THEN rest
            ELSE Val(<<[filename |-> filename,
                        header_offset |-> ZAdd(x.val.header_offset, concat),
                        compress_size |-> x.val.compress_size,
                        compress_type |-> U16(centdir, 10)]>> \o rest.val)
        Fields(centdir, name_len, extra_len, comment_len) ==
            IF Len(centdir) # 46 THEN Exc("BadZipFile")
            ELSE Entry(centdir,
                       Plain(Slice(data, total + 46, total + 46 + name_len)),
                       DecodeExtra(Plain(Slice(data, total + 46 + name_len,
                                               total + 46 + name_len + extra_len)),
                                   ULE(SubSeq(centdir, 25, 28)),
                                   ULE(SubSeq(centdir, 21, 24)),
                                   ULE(SubSeq(centdir, 43, 46))),
                       ReadCentralDir(data,
                                      total + 46 + name_len + extra_len + comment_len,
                                      size_cd, concat))
        Header(centdir) ==
            IF Len(centdir) # 46 THEN Exc("BadZipFile")
            ELSE Fields(centdir, U16(centdir, 28), U16(centdir, 30), U16(centdir, 32))
    IN  IF ~(total < size_cd) THEN Val(<<>>)
        ELSE Header(Plain(Slice(data, total, total + 46)))

\* _EndRecData64: endrec as it is, or with the fields of the ZIP64 EOCD
\* record that the locator before the EOCD record announces.
EndRecData64(buf, n, endrec) ==
    LET Update(locator, rec64) ==
            IF Len(locator) # 20 THEN Val(endrec)
            ELSE IF SubSeq(locator, 1, 4) # STRING_END_ARCHIVE64_LOCATOR THEN Val(endrec)
            ELSE IF \/ ULE(SubSeq(locator, 5, 8)) # Z(0)
                    \/ ZLt(Z(1), ULE(SubSeq(locator, 17, 20)))
                 THEN Exc("BadZipFile")
            ELSE IF Len(rec64) # 56 THEN Val(endrec)
            ELSE IF SubSeq(rec64, 1, 4) # STRING_END_ARCHIVE64 THEN Val(endrec)
            ELSE Val([endrec EXCEPT !.signature = STRING_END_ARCHIVE64,
                                    !.size = ULE(SubSeq(rec64, 41, 48)),
                                    !.offset = ULE(SubSeq(rec64, 49, 56))])
    IN  IF n - 42 < 0 THEN Val(endrec)
        ELSE Update(Plain(Slice(buf, n - 42, n - 22)),
                    IF n - 98 < 0 THEN <<>> ELSE Plain(Slice(buf, n - 98, n - 42)))

\* _EndRecData: the EOCD record at the end of the buffer (with no archive
\* comment), or BadZipFile ("File is not a zip file").
EndRecData(buf) ==
    LET Record(n, data) ==
            IF /\ Len(data) = 22
               /\ SubSeq(data, 1, 4) = STRING_END_ARCHIVE
               /\ SubSeq(data, 21, 22) = <<0, 0>>
            THEN EndRecData64(buf, n, [signature |-> STRING_END_ARCHIVE,
                                       size |-> ULE(SubSeq(data, 13, 16)),
                                       offset |-> ULE(SubSeq(data, 17, 20)),
                                       location |-> n - 22])
            ELSE Exc("BadZipFile")
        Sized(n) == IF n < 22 THEN Exc("BadZipFile")
                    ELSE Record(n, Plain(Slice(buf, n - 22, n)))
    IN  Sized(BLen(buf))

\* _RealGetContents: where the directory starts in the buffer, then its
\* entries.
RealGetContents(buf, endrec) ==
    LET Read(n, concat, start_dir) ==
            IF ZIsNeg(start_dir) THEN Exc("BadZipFile")
            ELSE IF ZLt(Z(n), endrec.size)
                 THEN \* the loop runs past the data: "Truncated central directory"
                      Exc("BadZipFile")
            ELSE ReadCentralDir(Slice(buf, ZInt(start_dir),
                                      ZInt(start_dir) + ZInt(endrec.size)),
                                0, ZInt(endrec.size), concat)
        Located(concat) == Read(BLen(buf), concat, ZAdd(endrec.offset, concat))
    IN  Located(ZSub(ZSub(ZSub(Z(endrec.location), endrec.size), endrec.offset),
                     Z(IF endrec.signature = STRING_END_ARCHIVE64 THEN 76 ELSE 0)))

\* ZipFile.__init__ in mode 'r': the filelist, or the exception.
ZipFile(buf) ==
    LET Contents(endrec) == IF endrec.exc # "" THEN endrec
                            ELSE RealGetContents(buf, endrec.val)
    IN  Contents(EndRecData(buf))

(* ---------------------------------------------------------------------- *)
(* isal_zlib.decompressobj(-15).decompress(content): raw inflate.  Stored  *)
(* blocks (BTYPE 0) are decoded; a stream that ends early yields what was  *)
(* decoded so far, without an error, as zlib's decompress objects do; the  *)
(* reserved block type and mismatched stored lengths raise.  A Huffman     *)
(* block is decoded only as far as seeing that fewer than 4 bytes cannot   *)
(* hold a dynamic block's header; beyond that its outcome is left open     *)
(* ("HuffmanNotModelled": on the only such input of the sessions below,    *)
(* the error body, zlib raises zlib.error).                                *)
(* ---------------------------------------------------------------------- *)
RECURSIVE InflateFrom(_, _)
InflateFrom(content, pos) ==
    LET n == BLen(content)
        head == Plain(Slice(content, pos, pos + 5))
        bfinal == head[1] % 2
        btype == (head[1] \div 2) % 4
        len == U16(head, 1)
        nlen == U16(head, 3)
        body == Slice(content, pos + 5, pos + 5 + len)
        more == InflateFrom(content, pos + 5 + len)
    IN  IF pos >= n THEN Val(<<>>)
        ELSE IF btype = 3 THEN Exc("zlib.error")
        ELSE IF btype = 2 /\ n - pos < 4 THEN Val(<<>>)
        ELSE IF btype # 0 THEN Exc("HuffmanNotModelled")
        ELSE IF Len(head) < 5 THEN Val(<<>>)
        ELSE IF len + nlen # 65535 THEN Exc("zlib.error")
        ELSE IF bfinal = 1 \/ BLen(body) < len THEN Val(body)
        ELSE IF more.exc # "" THEN more
        ELSE Val(BCat(body, more.val))

Inflate(content) == InflateFrom(content, 0)

(* ---------------------------------------------------------------------- *)
(* The object store behind self.client.get(url, headers={'Range': h})      *)
(* ---------------------------------------------------------------------- *)
\* The body of an error answer: b'<Error>'.
ErrBody == Lit(<<60, 69, 114, 114, 111, 114, 62>>)

\* bytes first..last (inclusive, first <= last < size) of the object.
RemoteSlice(o, first, last) ==
    LET n == ZInt(ZSub(last, first)) + 1
        zeros == IF ZLt(first, o.pad)
                 THEN (IF ZLt(last, o.pad) THEN n ELSE ZInt(ZSub(o.pad, first)))
                 ELSE 0
        from == IF ZLt(first, o.pad) THEN 0 ELSE ZInt(ZSub(first, o.pad))
    IN  BCat(Fill(0, zeros), Slice(o.tail, from, from + (n - zeros)))

\* What a Range header asks for: "bytes=<first>-<last>" with first <= last
\* is a byte range; anything else the code can send is not a valid range.
ParseRange(h) ==
    IF /\ Len(h) = 4
       /\ h[1] = <<"bytes=">>
       /\ h[2][1] = "num"
       /\ h[3] = <<"-">>
       /\ h[4][1] = "num"
       /\ ZLe(h[2][2], h[4][2])
    THEN [valid |-> TRUE, first |-> h[2][2], last |-> h[4][2]]
    ELSE [valid |-> FALSE, first |-> Z(0), last |-> Z(0)]

Answer(status, body) == [exc |-> "", val |-> body, status |-> status]

\* The answers of a store that works: 206 with the bytes of the range that
\* exist, 416 for a range past the end; a header that is no valid range is
\* refused (400) or ignored (200 with the whole object; for an object with
\* a pad the whole body is beyond what the model's byte strings hold).
ServerAnswers(o, h) ==
    LET r == ParseRange(h)
        size == ObjectSize(o)
    IN  IF r.valid /\ ZLt(r.first, size)
        THEN {Answer(206, RemoteSlice(o, r.first, ZMin(r.last, ZSub(size, Z(1)))))}
        ELSE IF r.valid THEN {Answer(416, ErrBody)}
        ELSE {Answer(400, ErrBody)}
             \cup (IF o.pad = Z(0) THEN {Answer(200, o.tail)} ELSE {})

\* What can go wrong with any one request: the store answers 503, or the
\* connection fails and requests raises.
FaultAnswers == {Answer(503, ErrBody), [exc |-> "ConnectionError", val |-> <<>>, status |-> 0]}

\* S3Zip.ranged_http_get: resp.content, whatever the status; a connection
\* failure propagates.
ranged_http_get(resp) == IF resp.exc # "" THEN Exc(resp.exc) ELSE Val(resp.val)

(* ---------------------------------------------------------------------- *)
(* S3Zip                                                                   *)
(* ---------------------------------------------------------------------- *)
EOCD_RECORD_SIZE == 22
ZIP64_EOCD_RECORD_SIZE == 56
ZIP64_EOCD_LOCATOR_SIZE == 20
\* 2^32, one more than the limit below.
MAX_STANDARD_ZIP_SIZE_2_32 == <<4, 0>>

\* 4_294_967_295
MAX_STANDARD_ZIP_SIZE == <<3, 1073741823>>
ZIP_DEFLATED == 8
max_workers == 20

\* Bounds of the model: requests that may go wrong in one session,
\* extract_file calls in one session, and the number of chunks up to which
\* the reads of one call are answered in every order (the reads of a call
\* of more chunks are answered in the order they were sent).
MaxFaults == 1
MaxCalls == 2
MaxAnyOrder == 8

VARIABLES
    scn,      \* what the archive was written from: [tag, members, zip64]
    remote,   \* the remote object: [pad, tail]
    self,     \* the S3Zip object: thresholds, zip_dir (filelist), cd_start
    pc,       \* "new", "idle", "dead", or what the running call awaits
    fr,       \* the running call's locals
    cur,      \* the get in progress
    last,     \* the last get that ended: its reads and its outcome
    ret,      \* the last call that ended: its outcome
    log,      \* the gets of the running (or last) call, in order
    faults,   \* requests that went wrong so far
    calls,    \* extract_file calls so far
    other,    \* a second caller's thread while it is not the one running:
              \* its pc, fr, cur and log
    hist      \* the extract_file calls that ended, in the order they ended:
              \* name, gets, outcome, whether a request of the call went
              \* wrong, and how many calls had ended when it began

vars == <<scn, remote, self, pc, fr, cur, last, ret, log, faults, calls, other, hist>>

Pending == [exc |-> "", val |-> <<>>, status |-> 0]

NoGet == [active |-> FALSE, start |-> Z(0), length |-> Z(0), dispatched |-> FALSE,
          tasks |-> <<>>, ooo |-> FALSE]

NewGet(start, length) ==
    [active |-> TRUE, start |-> start, length |-> length, dispatched |-> FALSE,
     tasks |-> <<>>, ooo |-> FALSE]

NoLast == [valid |-> FALSE, start |-> Z(0), length |-> Z(0), chunked |-> FALSE,
           reads |-> <<>>, out |-> Val(<<>>), ooo |-> FALSE]

NoFrame == [op |-> "", file_size |-> Z(0), path |-> "", eocd_record |-> <<>>,
            zip64_eocd_record |-> <<>>, zip64_eocd_locator |-> <<>>,
            cd_start |-> Z(0), cd_size |-> Z(0),
            filename |-> <<>>, zi |-> 0, file_head |-> <<>>,
            name_len |-> 0, extra_len |-> 0]

NoRet == [op |-> "", filename |-> <<>>, zi |-> 0, fetched |-> FALSE, payload |-> <<>>,
          out |-> Val(<<>>)]

\* A caller's thread that is in no call, and the empty history.
NoThread == [pc |-> "idle", fr |-> NoFrame, cur |-> NoGet, log |-> <<>>,
             faulted |-> FALSE, began |-> 0]

NoHist == [faulted |-> FALSE, began |-> 0, done |-> <<>>]

\* The call in progress raises e, its locals being `frame`: __init__ leaves
\* no object behind, extract_file leaves the object as it was.
RaiseIn(frame, e) ==
    /\ pc' = IF fr.op = "init" THEN "dead" ELSE "idle"
    /\ ret' = [op |-> fr.op, filename |-> fr.filename, zi |-> fr.zi,
               fetched |-> FALSE, payload |-> <<>>, out |-> Exc(e)]
    /\ cur' = NoGet
    /\ fr' = frame
    /\ UNCHANGED <<self, log>>

Raise(e) == RaiseIn(fr, e)

\* The call in progress calls self.get(start, length) and awaits it at `at`.
CallGet(at, start, length, frame) ==
    /\ pc' = at
    /\ fr' = frame
    /\ cur' = NewGet(start, length)
    /\ log' = Append(log, [start |-> start, length |-> length])
    /\ UNCHANGED <<self, ret>>

\* get_zip_dir after self.get(file_size - 22, 22) returned.
AfterEocd(eocd_record) ==
    IF ZLe(fr.file_size, MAX_STANDARD_ZIP_SIZE)
    THEN \E m \in {get_central_directory_metadata_from_eocd(eocd_record)} :
             IF m.exc # ""
             THEN RaiseIn([fr EXCEPT !.path = "accessing zip",
                                     !.eocd_record = eocd_record], m.exc)
             ELSE CallGet("cd", m.val.cd_start, m.val.cd_size,
                          [fr EXCEPT !.path = "accessing zip",
                                     !.eocd_record = eocd_record,
                                     !.cd_start = m.val.cd_start,
                                     !.cd_size = m.val.cd_size])
    ELSE CallGet("z64rec",
                 ZSub(fr.file_size, Z(EOCD_RECORD_SIZE + ZIP64_EOCD_LOCATOR_SIZE
                                      + ZIP64_EOCD_RECORD_SIZE)),
                 Z(ZIP64_EOCD_RECORD_SIZE),
                 [fr EXCEPT !.path = "accessing zip64", !.eocd_record = eocd_record])

AfterZip64Record(zip64_eocd_record) ==
    CallGet("z64loc",
            ZSub(fr.file_size, Z(EOCD_RECORD_SIZE + ZIP64_EOCD_LOCATOR_SIZE)),
            Z(ZIP64_EOCD_LOCATOR_SIZE),
            [fr EXCEPT !.zip64_eocd_record = zip64_eocd_record])

AfterZip64Locator(zip64_eocd_locator) ==
    \E m \in {get_central_directory_metadata_from_eocd64(fr.zip64_eocd_record)} :
        IF m.exc # "" THEN Raise(m.exc)
        ELSE CallGet("cd64", m.val.cd_start, m.val.cd_size,
                     [fr EXCEPT !.zip64_eocd_locator = zip64_eocd_locator,
                                !.cd_start = m.val.cd_start,
                                !.cd_size = m.val.cd_size])

\* get_zip_dir returns (ZipFile, cd_start) and __init__ stores them.
AfterCentralDirectory(buffer) ==
    \E zf \in {ZipFile(buffer)} :
        IF zf.exc # "" THEN Raise(zf.exc)
        ELSE /\ self' = [self EXCEPT !.zip_dir = zf.val, !.cd_start = fr.cd_start]
             /\ pc' = "idle"
             /\ ret' = [op |-> "init", filename |-> <<>>, zi |-> 0,
                        fetched |-> FALSE, payload |-> <<>>, out |-> Val(<<>>)]
             /\ cur' = NoGet
             /\ UNCHANGED <<fr, log>>

\* extract_file after the 4 bytes at header offset + 26 arrived.
AfterFileHead(file_head) ==
    LET zi == self.zip_dir[fr.zi]
        name_len == parse_short(Slice(file_head, 0, 2))
        extra_len == parse_short(Slice(file_head, 2, 4))
        content_offset ==
            ZAdd(ZAdd(self.cd_start, zi.header_offset), Z(30 + name_len.val + extra_len.val))
    IN  IF name_len.exc # "" THEN Raise(name_len.exc)
        ELSE IF extra_len.exc # "" THEN Raise(extra_len.exc)
        ELSE CallGet("content", content_offset, zi.compress_size,
                     [fr EXCEPT !.file_head = file_head,
                                !.name_len = name_len.val,
                                !.extra_len = extra_len.val])

\* extract_file after the payload arrived (outname is None).
AfterContent(content) ==
    LET zi == self.zip_dir[fr.zi]
        out == IF zi.compress_type = ZIP_DEFLATED THEN Inflate(content) ELSE Val(content)
    IN  /\ pc' = "idle"
        /\ ret' = [op |-> "extract", filename |-> fr.filename, zi |-> fr.zi,
                   fetched |-> TRUE, payload |-> content, out |-> out]
        /\ cur' = NoGet
        /\ UNCHANGED <<self, fr, log>>

\* A caller's own self.get(start, length) returned.
AfterGet(content) ==
    /\ pc' = "idle"
    /\ ret' = [op |-> "get", filename |-> <<>>, zi |-> 0,
               fetched |-> TRUE, payload |-> content, out |-> Val(content)]
    /\ cur' = NoGet
    /\ UNCHANGED <<self, fr, log>>

\* self.get ended with `out` (bytes, or the exception it raises): the call
\* that awaits it goes on.
Resume(out) ==
    IF out.exc # "" THEN Raise(out.exc)
    ELSE IF pc = "eocd" THEN AfterEocd(out.val)
    ELSE IF pc = "z64rec" THEN AfterZip64Record(out.val)
    ELSE IF pc = "z64loc" THEN AfterZip64Locator(out.val)
    ELSE IF pc = "cd" THEN AfterCentralDirectory(BCat(out.val, fr.eocd_record))
    ELSE IF pc = "cd64"
         THEN AfterCentralDirectory(JoinAll(<<out.val, fr.zip64_eocd_record,
                                              fr.zip64_eocd_locator, fr.eocd_record>>))
    ELSE IF pc = "head" THEN AfterFileHead(out.val)
    ELSE IF pc = "content" THEN AfterContent(out.val)
    ELSE AfterGet(out.val)

\* The running thread's step is over, a request of it having gone wrong in
\* it (f) or not: if its call has ended (pc' says so), the call is entered
\* in hist.
Ended(f) ==
    hist' = IF pc' \in {"idle", "dead"}
            THEN [faulted |-> FALSE, began |-> 0,
                  done |-> IF fr.op = "extract"
                           THEN Append(hist.done,
                                       [filename |-> fr.filename, log |-> log',
                                        out |-> ret'.out,
                                        faulted |-> hist.faulted \/ f,
                                        began |-> hist.began])
                           ELSE hist.done]
            ELSE [hist EXCEPT !.faulted = @ \/ f]

\* The answers one request can get in this state.
Responses(h) ==
    ServerAnswers(remote, h) \cup (IF faults < MaxFaults THEN FaultAnswers ELSE {})

Count(resp) == IF resp \in FaultAnswers THEN faults + 1 ELSE faults

\* S3Zip.__init__ up to its first await: get_file_size(), then
\* self.get(file_size - 22, 22).
Construct ==
    /\ pc = "new"
    /\ LET file_size == ObjectSize(remote)
       IN  /\ pc' = "eocd"
           /\ fr' = [NoFrame EXCEPT !.op = "init", !.file_size = file_size]
           /\ cur' = NewGet(ZSub(file_size, Z(EOCD_RECORD_SIZE)), Z(EOCD_RECORD_SIZE))
           /\ log' = <<[start |-> ZSub(file_size, Z(EOCD_RECORD_SIZE)),
                        length |-> Z(EOCD_RECORD_SIZE)]>>
    /\ UNCHANGED <<scn, remote, self, last, ret, faults, calls, other, hist>>

\* S3Zip.get, length <= multipart_threshold: one ranged read.
GetSingle ==
    /\ cur.active
    /\ ZLe(cur.length, self.multipart_threshold)
    /\ LET end == ZSub(ZAdd(cur.start, cur.length), Z(1))
           h == RangeHeader(cur.start, end)
       IN  \E resp \in Responses(h) :
              /\ faults' = Count(resp)
              /\ last' = [valid |-> TRUE, start |-> cur.start, length |-> cur.length,
                          chunked |-> FALSE,
                          reads |-> <<[hdr |-> h, res |-> resp]>>,
                          out |-> ranged_http_get(resp), ooo |-> FALSE]
              /\ Resume(ranged_http_get(resp))
              /\ Ended(resp \in FaultAnswers)
    /\ UNCHANGED <<scn, remote, calls, other>>

\* S3Zip.get, else: threaded_get submits one task per range (executor.map).
Dispatch ==
    /\ cur.active
    /\ ~ZLe(cur.length, self.multipart_threshold)
    /\ ~cur.dispatched
    /\ LET range_params ==
               calculate_range_parameters(cur.length, cur.start, self.multipart_chunksize)
       IN  cur' = [cur EXCEPT !.dispatched = TRUE,
                              !.tasks = [k \in 1..Len(range_params) |->
                                            [hdr |-> range_params[k], st |-> "queued",
                                             res |-> Pending]]]
    /\ UNCHANGED <<scn, remote, self, pc, fr, last, ret, log, faults, calls, other, hist>>

Running == {k \in 1..Len(cur.tasks) : cur.tasks[k].st = "running"}
Queued == {k \in 1..Len(cur.tasks) : cur.tasks[k].st = "queued"}

\* As WorkerStart below, but with a thread for every task: no limit on the
\* requests in flight.
WorkerStartUncapped ==
    /\ cur.dispatched
    /\ Queued # {}
    /\ LET k == CHOOSE i \in Queued : \A j \in Queued : i <= j
       IN  cur' = [cur EXCEPT !.tasks[k].st = "running"]
    /\ UNCHANGED <<scn, remote, self, pc, fr, last, ret, log, faults, calls, other, hist>>

\* A worker thread of the pool takes the next task off the queue and sends
\* its request; the pool has at most max_workers threads.
WorkerStart ==
    /\ cur.dispatched
    /\ Queued # {}
    /\ Cardinality(Running) < max_workers
    /\ LET k == CHOOSE i \in Queued : \A j \in Queued : i <= j
       IN  cur' = [cur EXCEPT !.tasks[k].st = "running"]
    /\ UNCHANGED <<scn, remote, self, pc, fr, last, ret, log, faults, calls, other, hist>>

\* A request in flight is answered; its future is done.
WorkerFinish ==
    /\ cur.dispatched
    /\ \E k \in Running :
         \E resp \in Responses(cur.tasks[k].hdr) :
            /\ Len(cur.tasks) <= MaxAnyOrder \/ \A j \in Running : k <= j
            /\ faults' = Count(resp)
            /\ cur' = [cur EXCEPT !.tasks[k].st = "done",
                                  !.tasks[k].res = resp,
                                  !.ooo = cur.ooo \/ \E j \in 1..(k - 1) :
                                                        cur.tasks[j].st # "done"]
            /\ hist' = [hist EXCEPT !.faulted = @ \/ resp \in FaultAnswers]
    /\ UNCHANGED <<scn, remote, self, pc, fr, last, ret, log, calls, other>>

\* The bodies joined last task first.
JoinResultsReversed(tasks) ==
    LET failed == {k \in 1..Len(tasks) : tasks[k].res.exc # ""}
    IN  IF failed # {}
        THEN Exc(tasks[CHOOSE i \in failed : \A j \in failed : i <= j].res.exc)
        ELSE Val(JoinAll([k \in 1..Len(tasks) |-> tasks[Len(tasks) + 1 - k].res.val]))

\* b''.join(results) over the futures in submission order: the first
\* exception among them is raised, else the bodies are joined.
JoinResults(tasks) ==
    LET failed == {k \in 1..Len(tasks) : tasks[k].res.exc # ""}
    IN  IF failed # {}
        THEN Exc(tasks[CHOOSE i \in failed : \A j \in failed : i <= j].res.exc)
        ELSE Val(JoinAll([k \in 1..Len(tasks) |-> tasks[k].res.val]))

\* The with-block is left once every future is done (shutdown(wait=True));
\* threaded_get joins the results and get returns them.
Join ==
    /\ cur.dispatched
    /\ \A k \in 1..Len(cur.tasks) : cur.tasks[k].st = "done"
    /\ last' = [valid |-> TRUE, start |-> cur.start, length |-> cur.length,
                chunked |-> TRUE,
                reads |-> [k \in 1..Len(cur.tasks) |->
                              [hdr |-> cur.tasks[k].hdr, res |-> cur.tasks[k].res]],
                out |-> JoinResults(cur.tasks), ooo |-> cur.ooo]
    /\ Resume(JoinResults(cur.tasks))
    /\ Ended(FALSE)
    /\ UNCHANGED <<scn, remote, faults, calls, other>>

\* The entries named filename, or the first entry when there is none.
MatchesOrFirst(zip_dir, filename) ==
    LET found == SelectSeq([k \in 1..Len(zip_dir) |-> k],
                           LAMBDA k : zip_dir[k].filename = filename)
    IN  IF found = <<>> /\ zip_dir # <<>> THEN <<1>> ELSE found

\* The entries of zip_dir.filelist named filename, in directory order.
Matches(zip_dir, filename) ==
    SelectSeq([k \in 1..Len(zip_dir) |-> k], LAMBDA k : zip_dir[k].filename = filename)

\* S3Zip.extract_file(filename) up to its first await: the [0] of the list
\* of matching entries (IndexError if there is none), then
\* self.get(cd_start + header_offset + 26, 4).
extract_file(filename) ==
    /\ pc = "idle"
    /\ calls < MaxCalls
    /\ calls' = calls + 1
    /\ LET found == Matches(self.zip_dir, filename)
       IN  IF found = <<>>
           THEN /\ ret' = [op |-> "extract", filename |-> filename, zi |-> 0,
                           fetched |-> FALSE, payload |-> <<>>,
                           out |-> Exc("IndexError")]
                /\ log' = <<>>
                /\ fr' = [NoFrame EXCEPT !.op = "extract", !.filename = filename]
                /\ hist' = [hist EXCEPT !.done = Append(@, [filename |-> filename,
                                                            log |-> <<>>,
                                                            out |-> Exc("IndexError"),
                                                            faulted |-> FALSE,
                                                            began |-> Len(hist.done)])]
                /\ UNCHANGED <<pc, cur>>
           ELSE LET zi == self.zip_dir[found[1]]
                    at == ZAdd(ZAdd(self.cd_start, zi.header_offset), Z(26))
                IN  /\ pc' = "head"
                    /\ fr' = [NoFrame EXCEPT !.op = "extract", !.filename = filename,
                                             !.zi = found[1]]
                    /\ cur' = NewGet(at, Z(4))
                    /\ log' = <<[start |-> at, length |-> Z(4)]>>
                    /\ hist' = [hist EXCEPT !.faulted = FALSE, !.began = Len(hist.done)]
                    /\ UNCHANGED ret
    /\ UNCHANGED <<scn, remote, self, last, faults, other>>

(* ---------------------------------------------------------------------- *)
(* Sessions: one remote object, one S3Zip built on it, then extract_file   *)
(* calls.                                                                  *)
(* ---------------------------------------------------------------------- *)
NameA == <<97>>
NameBC == <<98, 99>>
NameD == <<100>>
NameE == <<101>>
NameF == <<102>>
NameAbsent == <<122, 122>>

\* A stored member of 150 bytes, a deflated member whose local header has
\* an extra field the directory does not list, and a member compressed with
\* method 12 (bzip2).
MemberA == [name |-> NameA, method |-> 0, lextra |-> <<>>,
            data |-> JoinAll(<<Fill(1, 50), Fill(2, 50), Fill(3, 50)>>)]
MemberBC == [name |-> NameBC, method |-> ZIP_DEFLATED, lextra |-> <<85, 84, 4, 0, 1, 2, 3, 4>>,
             data |-> DeflateStored(Lit(<<5, 6, 7>>))]
MemberD == [name |-> NameD, method |-> 12, lextra |-> <<>>, data |-> Lit(<<66, 90, 104>>)]

Members3 == <<MemberA, MemberBC, MemberD>>

\* A second member written under the first one's name, with other content:
\* the directory lists both.
MemberA2 == [name |-> NameA, method |-> 0, lextra |-> <<>>, data |-> Fill(9, 20)]

MembersDup == <<MemberA, MemberBC, MemberA2>>

\* Five members: the three above, a stored member of 9 MiB and one that
\* fills the archive up to 10 MiB.
Members5With(fill) ==
    Members3 \o
    <<[name |-> NameE, method |-> 0, lextra |-> <<>>,
       data |-> JoinAll(<<Fill(11, 4 * MB), Fill(12, 4 * MB), Fill(13, MB)>>)],
      [name |-> NameF, method |-> 0, lextra |-> <<>>, data |-> Fill(14, fill)]>>

Members5 == Members5With((10 * MB) - BLen(BuildTail(Z(0), Members5With(0), FALSE)))

FourGiB == <<4, 0>>

Scenarios ==
    { [tag |-> "small", members |-> Members3, zip64 |-> FALSE,
       object |-> Archive(Z(0), Members3, FALSE),
       multipart_threshold |-> Z(8 * MB), multipart_chunksize |-> Z(8 * MB)],
      [tag |-> "small, chunked", members |-> Members3, zip64 |-> FALSE,
       object |-> Archive(Z(0), Members3, FALSE),
       multipart_threshold |-> Z(22), multipart_chunksize |-> Z(64)],
      [tag |-> "above 2 GiB", members |-> Members3, zip64 |-> FALSE,
       object |-> Archive(<<2, 5>>, Members3, FALSE),
       multipart_threshold |-> Z(8 * MB), multipart_chunksize |-> Z(8 * MB)],
      [tag |-> "4 GiB - 1", members |-> Members3, zip64 |-> FALSE,
       object |-> ArchiveOfSize(ZSub(FourGiB, Z(1)), Members3, FALSE),
       multipart_threshold |-> Z(8 * MB), multipart_chunksize |-> Z(8 * MB)],
      [tag |-> "4 GiB", members |-> Members3, zip64 |-> TRUE,
       object |-> ArchiveOfSize(FourGiB, Members3, TRUE),
       multipart_threshold |-> Z(8 * MB), multipart_chunksize |-> Z(8 * MB)],
      [tag |-> "5 GiB, chunked", members |-> Members3, zip64 |-> TRUE,
       object |-> ArchiveOfSize(<<5, 7>>, Members3, TRUE),
       multipart_threshold |-> Z(22), multipart_chunksize |-> Z(64)],
      [tag |-> "10 MiB", members |-> Members5, zip64 |-> FALSE,
       object |-> Archive(Z(0), Members5, FALSE),
       multipart_threshold |-> Z(8 * MB), multipart_chunksize |-> Z(8 * MB)],
      [tag |-> "duplicate name", members |-> MembersDup, zip64 |-> FALSE,
       object |-> Archive(Z(0), MembersDup, FALSE),
       multipart_threshold |-> Z(8 * MB), multipart_chunksize |-> Z(8 * MB)],
      [tag |-> "not a zip", members |-> <<>>, zip64 |-> FALSE,
       object |-> [pad |-> Z(0), tail |-> Lit(<<1, 2, 3, 4, 5, 6, 7, 8, 9, 10>>)],
       multipart_threshold |-> Z(8 * MB), multipart_chunksize |-> Z(8 * MB)] }

Names == {NameA, NameBC, NameD, NameE, NameAbsent}

Init ==
    /\ \E s \in Scenarios :
          /\ scn = [tag |-> s.tag, members |-> s.members, zip64 |-> s.zip64]
          /\ remote = s.object
          /\ self = [multipart_threshold |-> s.multipart_threshold,
                     multipart_chunksize |-> s.multipart_chunksize,
                     zip_dir |-> <<>>, cd_start |-> Z(0)]
    /\ pc = "new"
    /\ fr = NoFrame
    /\ cur = NoGet
    /\ last = NoLast
    /\ ret = NoRet
    /\ log = <<>>
    /\ faults = 0
    /\ calls = 0
    /\ other = NoThread
    /\ hist = NoHist

Next ==
    \/ Construct
    \/ GetSingle
    \/ Dispatch
    \/ WorkerStart
    \/ WorkerFinish
    \/ Join
    \/ \E filename \in Names : extract_file(filename)

Spec == Init /\ [][Next]_vars

(* ---------------------------------------------------------------------- *)
(* Two callers on one S3Zip.  The threads share the object and nothing     *)
(* else; one runs at a time (the interpreter lock) and the other may be    *)
(* given the processor between any two steps of a call.                    *)
(* ---------------------------------------------------------------------- *)
\* The running thread is suspended and the other one resumed.  The object
\* exists (its constructor has returned), and one of the two is in a call.
Switch ==
    /\ pc \in {"idle", "head", "content"}
    /\ pc # "idle" \/ other.pc # "idle"
    /\ pc' = other.pc
    /\ fr' = other.fr
    /\ cur' = other.cur
    /\ log' = other.log
    /\ hist' = [hist EXCEPT !.faulted = other.faulted, !.began = other.began]
    /\ other' = [pc |-> pc, fr |-> fr, cur |-> cur, log |-> log,
                 faulted |-> hist.faulted, began |-> hist.began]
    /\ UNCHANGED <<scn, remote, self, last, ret, faults, calls>>

\* The sessions with two callers: the ZIP64 archive, the archive with a
\* name written twice, and the small archive with thresholds under which
\* the first member's payload is fetched in two chunks.
SharedScenarios ==
    {s \in Scenarios : s.tag \in {"4 GiB", "duplicate name"}}
    \cup
    { [tag |-> "small, payload chunked", members |-> Members3, zip64 |-> FALSE,
       object |-> Archive(Z(0), Members3, FALSE),
       multipart_threshold |-> Z(128), multipart_chunksize |-> Z(128)] }

InitShared ==
    /\ \E s \in SharedScenarios :
          /\ scn = [tag |-> s.tag, members |-> s.members, zip64 |-> s.zip64]
          /\ remote = s.object
          /\ self = [multipart_threshold |-> s.multipart_threshold,
                     multipart_chunksize |-> s.multipart_chunksize,
                     zip_dir |-> <<>>, cd_start |-> Z(0)]
    /\ pc = "new"
    /\ fr = NoFrame
    /\ cur = NoGet
    /\ last = NoLast
    /\ ret = NoRet
    /\ log = <<>>
    /\ faults = 0
    /\ calls = 0
    /\ other = NoThread
    /\ hist = NoHist

NextShared ==
    \/ Next
    \/ Switch

SharedSpec == InitShared /\ [][NextShared]_vars

(* ---------------------------------------------------------------------- *)
(* A caller's own calls of get: an S3Zip built on the small archive, and   *)
(* one self.get(start, length) for each start, length, threshold and chunk *)
(* size of GetInputs.                                                      *)
(* ---------------------------------------------------------------------- *)
MaxLength == 6
MaxChunk == 3

SmallObject == Archive(Z(0), Members3, FALSE)

\* What __init__ leaves in self.zip_dir and self.cd_start for SmallObject.
SmallDirectoryStart == MemberOffset(Z(0), Members3, Len(Members3) + 1)

SmallDirectory ==
    ZipFile(RemoteSlice(SmallObject, SmallDirectoryStart,
                        ZSub(ObjectSize(SmallObject), Z(1)))).val

\* Starts at the head of the object, inside the first member's payload and
\* three bytes before the object's end; lengths and chunk sizes of a few
\* bytes around the thresholds; lengths around 2^53 with chunks of 2^52
\* and 2^53; and a get of two chunks more than the pool has threads, the
\* one get whose requests the store does not fail.
GetInputs ==
    {[start |-> st, length |-> Z(n), threshold |-> Z(t), chunksize |-> Z(c),
      failing |-> TRUE] :
        st \in {Z(0), ZAdd(MemberDataOffset(Z(0), Members3, 1), Z(47)),
                ZSub(ObjectSize(SmallObject), Z(3))},
        n \in 1..MaxLength, t \in {1, 3}, c \in 1..MaxChunk}
    \cup
    {[start |-> Z(0), length |-> ZAdd(<<FloatLimit, 0>>, Z(d)),
      threshold |-> Z(8 * MB), chunksize |-> <<c, 0>>, failing |-> TRUE] :
        d \in {-1, 0, 1}, c \in {FloatLimit \div 2, FloatLimit}}
    \cup
    {[start |-> Z(0), length |-> Z(max_workers + 2), threshold |-> Z(1), chunksize |-> Z(1),
      failing |-> FALSE]}

InitGet ==
    /\ \E i \in GetInputs :
          /\ self = [multipart_threshold |-> i.threshold,
                     multipart_chunksize |-> i.chunksize,
                     zip_dir |-> SmallDirectory, cd_start |-> SmallDirectoryStart]
          /\ cur = NewGet(i.start, i.length)
          /\ log = <<[start |-> i.start, length |-> i.length]>>
          /\ faults = IF i.failing THEN 0 ELSE MaxFaults
    /\ scn = [tag |-> "get", members |-> Members3, zip64 |-> FALSE]
    /\ remote = SmallObject
    /\ pc = "get"
    /\ fr = [NoFrame EXCEPT !.op = "get"]
    /\ last = NoLast
    /\ ret = NoRet
    /\ calls = 0
    /\ other = NoThread
    /\ hist = NoHist

NextGet ==
    \/ GetSingle
    \/ Dispatch
    \/ WorkerStart
    \/ WorkerFinish
    \/ Join

GetSpec == InitGet /\ [][NextGet]_vars

(* ---------------------------------------------------------------------- *)
(* benchmark.py: the chunked range read, with a thread pool                *)
(* (thread_pool_get) and with asyncio.gather (download_range_async), on    *)
(* the small archive as the object.  start, length and chunk_size are a    *)
(* few bytes or the object's size, and plain integers.                     *)
(* ---------------------------------------------------------------------- *)
\* math.floor(length / chunk_size) is length \div chunk_size for the sizes
\* used here (the float quotient of two integers below 2^26 is floored
\* exactly).
get_chunks(start, length, chunk_size) ==
    LET n_chunks == length \div chunk_size
    IN  [starts |-> [i \in 1..n_chunks |-> start + (chunk_size * (i - 1))]
                    \o <<chunk_size * n_chunks>>,
         stops |-> [i \in 1..n_chunks |-> (start + (chunk_size * i)) - 1]
                   \o <<length>>]

\* get_s3: client.get_object(..., Range=range_header) raises ClientError
\* for an answer that is no success (botocore), else resp['Body'].read().
get_s3(resp) ==
    IF resp.exc # "" THEN Exc(resp.exc)
    ELSE IF resp.status \notin {200, 206} THEN Exc("ClientError")
    ELSE Val(resp.val)

\* get_async: the same with the asynchronous client.
get_async(resp) ==
    IF resp.exc # "" THEN Exc(resp.exc)
    ELSE IF resp.status \notin {200, 206} THEN Exc("ClientError")
    ELSE Val(resp.val)

\* f'bytes={i}-{j}' for i, j in zip(starts, stops), as tasks in state st.
RangeTasks(chunks, st) ==
    [k \in 1..Len(chunks.starts) |->
        [hdr |-> RangeHeader(Z(chunks.starts[k]), Z(chunks.stops[k])),
         st |-> st, res |-> Pending]]

\* thread_pool_get up to executor.map: one task per range, queued for the
\* pool's threads.
thread_pool_get ==
    /\ pc = "called"
    /\ fr.op = "thread_pool_get"
    /\ pc' = "pool"
    /\ cur' = [NewGet(Z(fr.start), Z(fr.length)) EXCEPT
                  !.dispatched = TRUE,
                  !.tasks = RangeTasks(get_chunks(fr.start, fr.length, fr.chunk_size),
                                       "queued")]
    /\ UNCHANGED <<scn, remote, self, fr, last, ret, log, faults, calls, other, hist>>

\* download_range_async up to asyncio.gather(*jobs): every job is started,
\* its request in flight.
download_range_async ==
    /\ pc = "called"
    /\ fr.op = "download_range_async"
    /\ pc' = "gather"
    /\ cur' = [NewGet(Z(fr.start), Z(fr.length)) EXCEPT
                  !.dispatched = TRUE,
                  !.tasks = RangeTasks(get_chunks(fr.start, fr.length, fr.chunk_size),
                                       "running")]
    /\ UNCHANGED <<scn, remote, self, fr, last, ret, log, faults, calls, other, hist>>

\* The call ends with `out`.
Return(out) ==
    /\ pc' = "idle"
    /\ last' = [valid |-> TRUE, start |-> cur.start, length |-> cur.length,
                chunked |-> TRUE,
                reads |-> [k \in 1..Len(cur.tasks) |->
                              [hdr |-> cur.tasks[k].hdr, res |-> cur.tasks[k].res]],
                out |-> out, ooo |-> cur.ooo]
    /\ ret' = [op |-> fr.op, filename |-> <<>>, zi |-> 0, fetched |-> out.exc = "",
               payload |-> out.val, out |-> out]
    /\ cur' = NoGet
    /\ UNCHANGED <<scn, remote, self, fr, log, faults, calls, other, hist>>

\* thread_pool_get leaves the with-block when every task is done and joins
\* the results in the order of the tasks; the first exception among them
\* is raised.
ThreadPoolReturn ==
    /\ pc = "pool"
    /\ \A k \in 1..Len(cur.tasks) : cur.tasks[k].st = "done"
    /\ LET results == [k \in 1..Len(cur.tasks) |-> get_s3(cur.tasks[k].res)]
           failed == {k \in 1..Len(results) : results[k].exc # ""}
       IN  IF failed # {}
           THEN Return(Exc(results[CHOOSE i \in failed : \A j \in failed : i <= j].exc))
           ELSE Return(Val(JoinAll([k \in 1..Len(results) |-> results[k].val])))

\* await asyncio.gather(*jobs): the bodies in the order of the jobs once
\* every job is done, or the exception of a job that raised, as soon as it
\* has.
GatherReturn ==
    /\ pc = "gather"
    /\ \/ /\ \A k \in 1..Len(cur.tasks) :
                 cur.tasks[k].st = "done" /\ get_async(cur.tasks[k].res).exc = ""
          /\ Return(Val(JoinAll([k \in 1..Len(cur.tasks) |->
                                    get_async(cur.tasks[k].res).val])))
       \/ \E k \in 1..Len(cur.tasks) :
             /\ cur.tasks[k].st = "done"
             /\ get_async(cur.tasks[k].res).exc # ""
             /\ Return(Exc(get_async(cur.tasks[k].res).exc))

\* Calls inside the object: from its head and from inside the first
\* member's payload, of a few bytes; and of the whole object, in chunks
\* of which the size is a multiple (427 = 7 * 61) and is not.
BenchInputs ==
    {[start |-> st, length |-> n, chunk_size |-> c] :
        st \in {0, ZInt(MemberDataOffset(Z(0), Members3, 1)) + 47},
        n \in 1..MaxLength, c \in 1..MaxChunk}
    \cup
    {[start |-> 0, length |-> ZInt(ObjectSize(SmallObject)), chunk_size |-> c] :
        c \in {61, 200}}

InitBench ==
    /\ \E i \in BenchInputs :
          \E op \in {"thread_pool_get", "download_range_async"} :
             fr = [op |-> op, start |-> i.start, length |-> i.length,
                   chunk_size |-> i.chunk_size]
    /\ scn = [tag |-> "benchmark", members |-> Members3, zip64 |-> FALSE]
    /\ remote = SmallObject
    /\ self = [multipart_threshold |-> Z(0), multipart_chunksize |-> Z(0),
               zip_dir |-> <<>>, cd_start |-> Z(0)]
    /\ pc = "called"
    /\ cur = NoGet
    /\ last = NoLast
    /\ ret = NoRet
    /\ log = <<>>
    /\ faults = 0
    /\ calls = 0
    /\ other = NoThread
    /\ hist = NoHist

NextBench ==
    \/ thread_pool_get
    \/ download_range_async
    \/ WorkerStart
    \/ WorkerFinish
    \/ ThreadPoolReturn
    \/ GatherReturn

BenchSpec == InitBench /\ [][NextBench]_vars

(* ---------------------------------------------------------------------- *)
(* Properties                                                              *)
(* ---------------------------------------------------------------------- *)
\* The first byte a Range header names.
RangeFirst(h) == IF h[2][1] = "num" THEN h[2][2] ELSE ZNeg(h[3][2])

\* start + length - 1
EndOf(start, length) == ZSub(ZAdd(start, length), Z(1))

\* ceil(n / d) in integers, for d > 0.
CeilDiv(n, d) ==
    CHOOSE k \in 0..(MaxParts + 1) :
        /\ ZLe(n, ZTimes(k, d))
        /\ k = 0 \/ ZLt(ZTimes(k - 1, d), n)

\* C1: a chunked get that returns bytes returns the bodies of its reads
\* joined in ascending order of their start offsets, whatever the order in
\* which the reads completed; when every read was answered with the bytes
\* of its range (206), that is what one read of the whole range returns.
C1_ChunksJoinedInOffsetOrder ==
    (last.valid /\ last.chunked /\ last.out.exc = "") =>
        /\ \A k \in 1..(Len(last.reads) - 1) :
              ZLt(RangeFirst(last.reads[k].hdr), RangeFirst(last.reads[k + 1].hdr))
        /\ last.out.val = JoinAll([k \in 1..Len(last.reads) |-> last.reads[k].res.val])
        /\ (\A k \in 1..Len(last.reads) : last.reads[k].res.status = 206) =>
              \A a \in ServerAnswers(remote,
                                     RangeHeader(last.start, EndOf(last.start, last.length))) :
                  last.out.val = a.val

\* A chunked get of three or more reads, all answered 206, one of which
\* completed before a read of a lower offset, has returned.
C1_OutOfOrderCompletion ==
    /\ last.valid /\ last.chunked /\ last.ooo
    /\ Len(last.reads) >= 3
    /\ \A k \in 1..Len(last.reads) : last.reads[k].res.status = 206
    /\ last.out.exc = ""
    /\ ret.op = "get"

\* C2: the ranges handed to the workers are "bytes=a-b" ranges, the first
\* from start, the last up to start + length - 1, each starting one past
\* the end of the one before, each but the last chunk-size long and the
\* last between 1 and chunk size long.
C2_RangesPartitionTheRequest ==
    cur.dispatched =>
        LET n == Len(cur.tasks)
            First(k) == cur.tasks[k].hdr[2][2]
            Last(k) == cur.tasks[k].hdr[4][2]
            Size(k) == ZAdd(ZSub(Last(k), First(k)), Z(1))
        IN  /\ n >= 1
            /\ \A k \in 1..n : /\ Len(cur.tasks[k].hdr) = 4
                               /\ cur.tasks[k].hdr[2][1] = "num"
                               /\ cur.tasks[k].hdr[4][1] = "num"
            /\ First(1) = cur.start
            /\ Last(n) = EndOf(cur.start, cur.length)
            /\ \A k \in 1..(n - 1) : /\ First(k + 1) = ZAdd(Last(k), Z(1))
                                     /\ Size(k) = self.multipart_chunksize
            /\ ZLe(Z(1), Size(n))
            /\ ZLe(Size(n), self.multipart_chunksize)

\* C3: a get of at most multipart_threshold bytes made one read, of bytes
\* start..start+length-1; any other get made ceil(length / chunk size)
\* reads.
C3_ReadCountByThreshold ==
    last.valid =>
        IF ZLe(last.length, self.multipart_threshold)
        THEN /\ ~last.chunked
             /\ Len(last.reads) = 1
             /\ last.reads[1].hdr = RangeHeader(last.start, EndOf(last.start, last.length))
        ELSE /\ last.chunked
             /\ Len(last.reads) = CeilDiv(last.length, self.multipart_chunksize)

\* C4: a get that ended either failed, or its range lies in the object and
\* it returned exactly the object's bytes start..start+length-1.
C4_ExactBytesOrFailure ==
    last.valid =>
        \/ last.out.exc # ""
        \/ /\ ~ZIsNeg(last.start)
           /\ ZLe(ZAdd(last.start, last.length), ObjectSize(remote))
           /\ last.out.val = RemoteSlice(remote, last.start, EndOf(last.start, last.length))

\* C5: a chunked get one of whose reads failed (the request raised, or the
\* store answered neither 200 nor 206) failed as a whole.
C5_ChunkFailureFailsTheCall ==
    (/\ last.valid /\ last.chunked
     /\ \E k \in 1..Len(last.reads) : \/ last.reads[k].res.exc # ""
                                      \/ last.reads[k].res.status \notin {200, 206})
        => last.out.exc # ""

\* C6: once get_zip_dir has made its second get, the gets of the call are
\* those of the path the object's size selects: up to 4,294,967,295 bytes
\* the last 22 bytes and then the directory named by that record, and
\* nothing else; above, the last 22 bytes, the 56 bytes at size - 98, the
\* 20 bytes at size - 42 and the directory named by the 56-byte record.
C6_PathBySize ==
    (fr.op = "init" /\ Len(log) >= 2) =>
        LET size == ObjectSize(remote)
            Field(record, a, b) == parse_little_endian_to_int(Slice(record, a, b)).val
        IN  /\ log[1] = [start |-> ZSub(size, Z(22)), length |-> Z(22)]
            /\ IF ZLe(size, <<3, 1073741823>>)
               THEN /\ fr.path = "accessing zip"
                    /\ Len(log) = 2
                    /\ log[2] = [start |-> Field(fr.eocd_record, 16, 20),
                                 length |-> Field(fr.eocd_record, 12, 16)]
               ELSE /\ fr.path = "accessing zip64"
                    /\ Len(log) <= 4
                    /\ log[2] = [start |-> ZSub(size, Z(98)), length |-> Z(56)]
                    /\ Len(log) >= 3 =>
                          log[3] = [start |-> ZSub(size, Z(42)), length |-> Z(20)]
                    /\ Len(log) >= 4 =>
                          log[4] = [start |-> Field(fr.zip64_eocd_record, 48, 56),
                                    length |-> Field(fr.zip64_eocd_record, 40, 48)]

\* get_zip_dir on an object of exactly 4,294,967,295 bytes has asked for
\* the directory on the standard path.
C6_StandardPathAtTheLimit ==
    /\ ObjectSize(remote) = <<3, 1073741823>>
    /\ fr.op = "init"
    /\ fr.path = "accessing zip"
    /\ Len(log) = 2

\* No entry of the directory has this name.
NoEntry(filename) == \A k \in 1..Len(self.zip_dir) : self.zip_dir[k].filename # filename

C8_DispatchOnCompressionMethod ==
    (ret.op = "extract" /\ ret.fetched) =>
        LET compress_type == self.zip_dir[ret.zi].compress_type
        IN  IF compress_type = 0 THEN ret.out = Val(ret.payload)
            ELSE IF compress_type = 8 THEN ret.out = Inflate(ret.payload)
            ELSE ret.out.exc # ""

\* C9: extract_file of an entry asks first for the 4 bytes at the entry's
\* true local-header offset + 26, then for compressed-size bytes at that
\* offset + 30 + name_len + extra_len, name_len and extra_len being the
\* lengths of the name and extra field of the local header whenever the 4
\* bytes it got are the object's.
C9_ReadsAtTrueOffsets ==
    (fr.op = "extract" /\ fr.zi > 0) =>
        LET m == scn.members[fr.zi]
            header == MemberOffset(remote.pad, scn.members, fr.zi)
        IN  /\ m.name = fr.filename
            /\ Len(log) \in {1, 2}
            /\ log[1] = [start |-> ZAdd(header, Z(26)), length |-> Z(4)]
            /\ Len(log) = 2 =>
                  /\ log[2] = [start |-> ZAdd(header, Z(30 + fr.name_len + fr.extra_len)),
                               length |-> Z(BLen(m.data))]
                  /\ fr.file_head = RemoteSlice(remote, ZAdd(header, Z(26)),
                                                ZAdd(header, Z(29)))
                        => /\ fr.name_len = Len(m.name)
                           /\ fr.extra_len = Len(m.lextra)

\* On the ZIP64 path, extract_file of the deflate entry whose local header
\* has an extra field has returned the entry's content.
C9_Zip64EntryExtracted ==
    /\ scn.zip64
    /\ pc = "idle"
    /\ fr.op = "extract"
    /\ fr.zi = 2
    /\ Len(log) = 2
    /\ ret.fetched
    /\ ret.out = Val(Lit(<<5, 6, 7>>))

\* C10: on the standard path the directory is asked for at the unsigned
\* values of bytes 16..19 (start) and 12..15 (length) of the EOCD record,
\* neither of them negative.
C10_DirectoryDecodedUnsigned ==
    (fr.op = "init" /\ fr.path = "accessing zip" /\ Len(log) >= 2) =>
        /\ log[2].start = ULE(Plain(Slice(fr.eocd_record, 16, 20)))
        /\ log[2].length = ULE(Plain(Slice(fr.eocd_record, 12, 16)))
        /\ ~ZIsNeg(log[2].start)
        /\ ~ZIsNeg(log[2].length)

\* The last member of the archive written under this name (0 if none).
LastNamed(filename) ==
    LET named == {k \in 1..Len(scn.members) : scn.members[k].name = filename}
    IN  IF named = {} THEN 0 ELSE CHOOSE k \in named : \A j \in named : j <= k

\* C11: extract_file of a name takes the last entry of the directory with
\* that name: it asks for the 4 bytes at that entry's local header + 26
\* and, the store answering every request with the object's bytes, returns
\* that entry's content when it is a stored one.
C11_LastDuplicateWins ==
    (fr.op = "extract" /\ fr.zi > 0) =>
        LET k == LastNamed(fr.filename)
        IN  /\ fr.zi = k
            /\ log[1] = [start |-> ZAdd(MemberOffset(remote.pad, scn.members, k), Z(26)),
                         length |-> Z(4)]
            /\ (pc = "idle" /\ ret.fetched /\ faults = 0 /\ scn.members[k].method = 0)
                  => ret.out = Val(scn.members[k].data)

\* A step taken once the constructor has returned leaves the object and
\* the remote object as they were.
ObjectUnchanged ==
    pc \in {"idle", "head", "content"} => (self' = self /\ remote' = remote)

\* C12: once the constructor has returned, no step of any extract_file
\* call, of either caller, changes the object (thresholds, zip_dir,
\* cd_start) or the remote object; and of the calls that ended, one that
\* returned bytes made its two gets, and any two for the same name that
\* returned bytes made the same gets and returned the same bytes.
C12_CallsLeaveObjectAndRepeat ==
    /\ [][ObjectUnchanged]_vars
    /\ [](\A i \in 1..Len(hist.done) :
            /\ hist.done[i].out.exc = "" => Len(hist.done[i].log) = 2
            /\ \A j \in 1..Len(hist.done) :
                  (/\ hist.done[i].filename = hist.done[j].filename
                   /\ hist.done[i].out.exc = ""
                   /\ hist.done[j].out.exc = "")
                      => /\ hist.done[i].log = hist.done[j].log
                         /\ hist.done[i].out = hist.done[j].out)

\* C12, for the calls no request of which went wrong: the object and the
\* remote object are left as they were; any two calls for the same name
\* made the same first get (or both none), and the same gets with the same
\* outcome when no request of theirs went wrong, a call for a name the
\* directory holds making its two gets each time.
C12_UnfaultedCallsRepeat ==
    /\ [][ObjectUnchanged]_vars
    /\ [](\A i \in 1..Len(hist.done) :
            /\ (~hist.done[i].faulted /\ ~NoEntry(hist.done[i].filename))
                  => Len(hist.done[i].log) = 2
            /\ \A j \in 1..Len(hist.done) :
                  hist.done[i].filename = hist.done[j].filename =>
                      /\ (hist.done[i].log = <<>>) <=> (hist.done[j].log = <<>>)
                      /\ hist.done[i].log # <<>> =>
                            hist.done[i].log[1] = hist.done[j].log[1]
                      /\ (~hist.done[i].faulted /\ ~hist.done[j].faulted) =>
                            /\ hist.done[i].log = hist.done[j].log
                            /\ hist.done[i].out = hist.done[j].out)

\* Two calls for the same name, each begun before the other had ended,
\* have both returned content, no request of theirs having gone wrong.
C12_SameNameTwiceInterleaved ==
    /\ Len(hist.done) = 2
    /\ hist.done[1].filename = hist.done[2].filename
    /\ \A i \in 1..2 : /\ hist.done[i].began = 0
                        /\ ~hist.done[i].faulted
                        /\ Len(hist.done[i].log) = 2
                        /\ hist.done[i].out.exc = ""
                        /\ hist.done[i].out.val # <<>>

\* C13: no more than 20 reads of a chunked get are in flight at a time, and
\* a chunked get that has ended (returned or raised) had every read it
\* dispatched finished, none of them awaiting its answer.
C13_PoolBoundedAndJoined ==
    /\ Cardinality(Running) <= 20
    /\ (last.valid /\ last.chunked) =>
           \A k \in 1..Len(last.reads) : last.reads[k].res # Pending

\* Twenty reads of a get of more than twenty chunks are in flight, and the
\* chunks after them wait in the queue.
C13_PoolFull ==
    /\ cur.dispatched
    /\ Len(cur.tasks) > 20
    /\ Cardinality(Running) = 20
    /\ Queued # {}

\* C14: the ranges of a call are "bytes=a-b" ranges, the first from start,
\* each starting one past the end of the one before and none empty, the
\* last ending at start + length - 1; and a call that ended, no request of
\* which the store failed, returned the object's bytes
\* start..start+length-1.
C14_ChunksCoverTheRequest ==
    /\ pc \in {"pool", "gather"} =>
          LET n == Len(cur.tasks)
              First(k) == cur.tasks[k].hdr[2][2]
              Last(k) == cur.tasks[k].hdr[4][2]
          IN  /\ n >= 1
              /\ \A k \in 1..n : ParseRange(cur.tasks[k].hdr).valid
              /\ First(1) = Z(fr.start)
              /\ \A k \in 1..(n - 1) : First(k + 1) = ZAdd(Last(k), Z(1))
              /\ Last(n) = Z((fr.start + fr.length) - 1)
    /\ (/\ pc = "idle"
        /\ ret.op \in {"thread_pool_get", "download_range_async"}
        /\ \A k \in 1..Len(last.reads) : last.reads[k].res = Pending
                                          \/ last.reads[k].res \notin FaultAnswers)
          => ret.out = Val(RemoteSlice(remote, Z(fr.start),
                                       Z((fr.start + fr.length) - 1)))

====
